---- MODULE Spec2Model ----
(***************************************************************************)
(* Model of the denken-v2 quiz trainer (src/app.py): the Flask handlers    *)
(* index, start_study, study, answer, next_question, show_result, go_home, *)
(* the cookie codec get_storage / json.dumps, the CSV question loader and  *)
(* the essay evaluators.                                                   *)
(*                                                                         *)
(* Text is a sequence of characters; a character is a one-glyph token      *)
(* ("a", "A", " ", "CR", "LF", "U9078" for a kanji).                         *)
(***************************************************************************)
EXTENDS Integers, Sequences, FiniteSets, TLC

VARIABLES
    csv,             \* the CSV files under logic/csv_data
    cookie,          \* the client's denken_storage cookie, as raw text
    session,         \* the Flask session of the client
    USE_AI_GRADING,  \* process configuration, fixed at start-up
    resp,            \* the response to the last request
    inflight         \* responses to submits the client has sent and not yet received

vars == <<csv, cookie, session, USE_AI_GRADING, resp, inflight>>

(***************************************************************************)
(* Bounds of the model.                                                    *)
(***************************************************************************)
MaxSubmits == 2      \* answers recorded in one activity log beyond its initial entries
MaxCount == 2        \* largest q_count a start request asks for
MaxTotal == 50       \* largest total_in_session of a finished session (SpecResult)
MaxPad == 2          \* SpecEssay: longest run of blanks around a submission

(***************************************************************************)
(* Text helpers: str.strip, str.replace('\r','').replace('\n',''),         *)
(* str.lower, set(str).                                                    *)
(***************************************************************************)
Whitespace == {" ", "CR", "LF"}

RECURSIVE LStrip(_)
LStrip(s) == IF s # <<>> /\ Head(s) \in Whitespace THEN LStrip(Tail(s)) ELSE s

RECURSIVE RStrip(_)
RStrip(s) ==
    IF s # <<>> /\ s[Len(s)] \in Whitespace THEN RStrip(SubSeq(s, 1, Len(s) - 1)) ELSE s

strip(s) == RStrip(LStrip(s))

RemoveNewlines(s) == SelectSeq(s, LAMBDA c : c \notin {"CR", "LF"})

LowerChar(c) ==
    CASE c = "A" -> "a"
      [] c = "B" -> "b"
      [] c = "C" -> "c"
      [] OTHER -> c

lower(s) == [i \in 1..Len(s) |-> LowerChar(s[i])]

CharSet(s) == {s[i] : i \in 1..Len(s)}

Repeat(c, n) == [i \in 1..n |-> c]

\* number of positions of seq holding x
Count(seq, x) == Cardinality({i \in 1..Len(seq) : seq[i] = x})

\* Python slice seq[-n:] for n > 0
SliceLast(seq, n) ==
    IF Len(seq) > n THEN SubSeq(seq, Len(seq) - n + 1, Len(seq)) ELSE seq

(***************************************************************************)
(* The Review Store cookie.                                                *)
(*                                                                         *)
(* A raw cookie is [kind, wrong_list, logs, extra]: kind tells what the    *)
(* text is ("absent": no cookie, "empty": the empty string, "text": not    *)
(* JSON, "null" / "array" / "number": JSON of that type, "object": a JSON  *)
(* object). For an object, wrong_list and logs are its two members, each   *)
(* [t, v] with t = "missing" (no such key), "null", "str" (a JSON string,   *)
(* v its characters) or "list" (v the list), and extra tells whether the   *)
(* object holds another key.                                               *)
(***************************************************************************)
CAP == 100

Missing == [t |-> "missing", v |-> <<>>]
JList(v) == [t |-> "list", v |-> v]
NonObject(kind) == [kind |-> kind, wrong_list |-> Missing, logs |-> Missing, extra |-> FALSE]
NoCookie == NonObject("absent")

\* the dict {"wrong_list": [], "logs": []}
EmptyStorage == [wrong_list |-> JList(<<>>), logs |-> JList(<<>>), extra |-> FALSE]

\* Python slice seq[:n]
SliceTo(seq, n) ==
    IF n >= 0
    THEN SubSeq(seq, 1, IF n < Len(seq) THEN n ELSE Len(seq))
    ELSE SubSeq(seq, 1, IF Len(seq) + n > 0 THEN Len(seq) + n ELSE 0)

\* a mutant of CapLogs: keeps the oldest entries
CapLogsOldest(logs) == IF Len(logs) > CAP THEN SliceTo(logs, CAP) ELSE logs

\* storage['logs'] = storage['logs'][-100:] when longer than 100
CapLogs(logs) == IF Len(logs) > CAP THEN SliceLast(logs, CAP) ELSE logs

\* a mutant of HealList: checks the key, not the type
HealListKeyOnly(member) == IF member.t = "missing" THEN <<>> ELSE member.v

\* if key not in storage or not isinstance(storage[key], list): storage[key] = []
HealList(member) == IF member.t # "list" THEN <<>> ELSE member.v

\* get_storage: the dict the handlers work on, as [wrong_list, logs, extra]
\* with both lists unwrapped.
get_storage(raw) ==
    LET \* json.loads under try/except: a dict, or a non-dict value, or the default
        isDict == raw.kind = "object"
        loaded == IF isDict
                  THEN [wrong_list |-> raw.wrong_list, logs |-> raw.logs, extra |-> raw.extra]
                  ELSE EmptyStorage
    IN  [wrong_list |-> HealList(loaded.wrong_list),
         logs |-> CapLogs(HealList(loaded.logs)),
         extra |-> loaded.extra]

\* json.dumps(storage, separators=(',', ':')) of a healed storage dict
json_dumps(storage) ==
    [kind |-> "object",
     wrong_list |-> JList(storage.wrong_list),
     logs |-> JList(storage.logs),
     extra |-> storage.extra]

(***************************************************************************)
(* The Question Repository: load_csv_data.                                 *)
(*                                                                         *)
(* A CSV file is [folder, prefix, stem, rows]: its name is prefix + stem + *)
(* ".csv" and a row is a sequence of cells (text). A question id is        *)
(* [tag, file, row] for f"{mode[:1]}_{short_f_name}_{i}". Of a question    *)
(* the model keeps id, category, back and dummies; front, note and         *)
(* keywords only reach the rendered page and the grading prompt.           *)
(***************************************************************************)
Theory == <<"T">>
Machines == <<"M">>
AllCategories == <<"ALL">>      \* the form value 'すべて'

ModeTag(mode) ==
    CASE mode = "fill" -> "f"
      [] mode = "ox" -> "o"
      [] mode = "essay" -> "e"
      [] OTHER -> "?"

\* folder_mode = {...}.get(mode, 'normal')
FolderOf(mode) ==
    CASE mode = "fill" -> "taku4"
      [] mode = "essay" -> "essay"
      [] OTHER -> "normal"

CleanCell(cell) == RemoveNewlines(strip(cell))

\* dummies = [d for d in cleaned_row[4:7] if d and d != cleaned_row[2]]
Dummies(cleaned_row) ==
    LET raw_dummies == IF Len(cleaned_row) >= 5
                       THEN SubSeq(cleaned_row, 5, IF Len(cleaned_row) < 7 THEN Len(cleaned_row) ELSE 7)
                       ELSE <<>>
    IN  SelectSeq(raw_dummies, LAMBDA d : d # <<>> /\ d # cleaned_row[3])

\* one accepted row (len(row) >= 3) of file stem, at index i of the reader
ParseRow(mode, stem, i, row) ==
    LET cleaned_row == [k \in 1..Len(row) |-> CleanCell(row[k])]
    IN  [id |-> [tag |-> ModeTag(mode), file |-> stem, row |-> i],
         category |-> cleaned_row[1],
         back |-> cleaned_row[3],
         dummies |-> IF mode = "fill" THEN Dummies(cleaned_row) ELSE <<>>]

\* the questions of one file, in row order, short rows skipped
RECURSIVE FileQuestions(_, _, _)
FileQuestions(mode, f, i) ==
    IF i > Len(f.rows) THEN <<>>
    ELSE (IF Len(f.rows[i]) >= 3 THEN <<ParseRow(mode, f.stem, i - 1, f.rows[i])>> ELSE <<>>)
         \o FileQuestions(mode, f, i + 1)

RECURSIVE ConcatFiles(_, _)
ConcatFiles(mode, files) ==
    IF files = {} THEN <<>>
    ELSE LET f == CHOOSE g \in files : TRUE
         IN  FileQuestions(mode, f, 1) \o ConcatFiles(mode, files \ {f})

load_csv_data(mode) ==
    LET own == {f \in csv : f.folder = FolderOf(mode)}
        files == IF mode = "essay" /\ own = {}
                 THEN {f \in csv : f.folder = "normal"}
                 ELSE own
    IN  ConcatFiles(mode, files)

\* load_csv_data('fill') + load_csv_data('ox') + load_csv_data('essay')
AllQuestions == load_csv_data("fill") \o load_csv_data("ox") \o load_csv_data("essay")

(***************************************************************************)
(* int((c / t) * 100): the quotient and the product are IEEE doubles and   *)
(* int() drops the fraction. The double product equals the exact value     *)
(* 100c/t to within an ulp, so the result is floor(100c/t) unless 100c/t   *)
(* is a whole number k that the product misses from below, and then k - 1. *)
(* FloatBelow lists those (c, t) for t <= 100.                             *)
(***************************************************************************)
FloatBelow == {<<29, 50>>, <<29, 100>>, <<57, 100>>, <<58, 100>>}

IntPct(c, t) ==
    IF <<c, t>> \in FloatBelow THEN ((100 * c) \div t) - 1 ELSE (100 * c) \div t

(***************************************************************************)
(* The Answer Evaluator. A verdict is [isDict, keys, score, is_correct]:   *)
(* whether the value is a dict, the keys it holds, and the values of       *)
(* 'score' and 'is_correct' when held.                                     *)
(***************************************************************************)
MinLength == 20
PassScore == 60

AllKeys == {"score", "is_correct", "feedback", "strengths", "improvements"}

Verdict(score, ok) == [isDict |-> TRUE, keys |-> AllKeys, score |-> score, is_correct |-> ok]

\* a mutant of Similarity: the percentage rounded to the nearest integer
SimilarityRounded(user_answer, model_answer) ==
    LET user_set == CharSet(lower(user_answer))
        model_set == CharSet(lower(model_answer))
        c == Cardinality(user_set \cap model_set)
        t == Cardinality(model_set)
    IN  IF t = 0 THEN 0 ELSE (200 * c + t) \div (2 * t)

\* score = int(similarity * 100), similarity = len(user_set & model_set) / len(model_set)
Similarity(user_answer, model_answer) ==
    LET user_set == CharSet(lower(user_answer))
        model_set == CharSet(lower(model_answer))
    IN  IF Cardinality(model_set) = 0 THEN 0
        ELSE IntPct(Cardinality(user_set \cap model_set), Cardinality(model_set))

\* a mutant of TooShort: a submission of exactly min_length characters is rejected
TooShortInclusive(user_answer) == user_answer = <<>> \/ Len(strip(user_answer)) <= MinLength

\* not user_answer or len(user_answer.strip()) < min_length
TooShort(user_answer) == user_answer = <<>> \/ Len(strip(user_answer)) < MinLength

evaluate_essay_simple(user_answer, model_answer) ==
    IF TooShort(user_answer)
    THEN Verdict(0, FALSE)
    ELSE LET score == Similarity(user_answer, model_answer)
         IN  Verdict(score, score >= PassScore)

\* What the grading call does this time: "raise" (no module, transport error, empty
\* content, text that is not JSON) or "parsed" with the value json.loads returned.
AiRaise == [outcome |-> "raise", value |-> Verdict(0, FALSE)]
AiParsed(v) == [outcome |-> "parsed", value |-> v]

AiOutcomes ==
    {AiRaise}
    \cup {AiParsed(Verdict(80, TRUE)), AiParsed(Verdict(40, FALSE))}
    \cup {AiParsed([isDict |-> FALSE, keys |-> {}, score |-> 0, is_correct |-> FALSE]),
          AiParsed([isDict |-> TRUE, keys |-> {"score", "feedback"}, score |-> 80,
                    is_correct |-> FALSE])}

evaluate_essay_with_ai(model_answer, user_answer, ai) ==
    IF ~USE_AI_GRADING THEN evaluate_essay_simple(user_answer, model_answer)
    ELSE IF ai.outcome = "raise" THEN evaluate_essay_simple(user_answer, model_answer)
    ELSE ai.value

\* evaluation['is_correct'] raises TypeError on a non-dict and KeyError without the key
SubscriptRaises(evaluation) == ~evaluation.isDict \/ "is_correct" \notin evaluation.keys

(***************************************************************************)
(* The Flask session. active tells whether the keys start_study sets       *)
(* (quiz_queue, total_in_session, correct_count, combo, is_review_mode)    *)
(* are present; last_result is <<>> when the key is absent and <<r>> when  *)
(* it holds r. Of a result the model keeps card, is_correct, current,      *)
(* progress and ai_feedback (<<>> for None, <<v>> for the verdict v).      *)
(***************************************************************************)
EmptySession ==
    [active |-> FALSE, quiz_queue |-> <<>>, total_in_session |-> 0, correct_count |-> 0,
     combo |-> 0, is_review_mode |-> FALSE, last_result |-> <<>>]

\* The last request and its response: the route, the status, the redirect target,
\* what the page shows (page, choices, score, wrong_count), the form of a start
\* request, and for a recorded answer the path id, the card graded, the normalized
\* user_answer and the verdict.
Response(route, status, to) ==
    [route |-> route, status |-> status, to |-> to, page |-> "", choices |-> <<>>,
     score |-> 0, wrong_count |-> 0, form |-> <<>>, graded |-> <<>>]

Today == 0      \* get_jst_now().strftime('%m/%d') during the run, as a day token

Modes == {"fill", "ox", "essay"}
Categories == {AllCategories, Theory, Machines}

\* the orders random.shuffle can leave a list in
Shuffles(seq) ==
    LET n == Len(seq)
        perms == {p \in [1..n -> 1..n] : \A i, j \in 1..n : i # j => p[i] # p[j]}
    IN  {[i \in 1..n |-> seq[p[i]]] : p \in perms}

(***************************************************************************)
(* GET / : index                                                           *)
(***************************************************************************)
Index ==
    /\ resp' = [Response("index", 200, "") EXCEPT
                    !.page = "index",
                    !.wrong_count = Len(get_storage(cookie).wrong_list)]
    /\ UNCHANGED <<csv, cookie, session, USE_AI_GRADING, inflight>>

(***************************************************************************)
(* POST /start_study                                                       *)
(***************************************************************************)
\* all_q after loading and filtering
FilteredPool(mode, cat, is_review, storage) ==
    IF is_review
    THEN SelectSeq(AllQuestions,
                   LAMBDA q : \E k \in 1..Len(storage.wrong_list) : storage.wrong_list[k] = q.id)
    ELSE IF cat # AllCategories
         THEN SelectSeq(load_csv_data(mode), LAMBDA q : q.category = cat)
         ELSE load_csv_data(mode)

\* a mutant of Truncate: one question more than asked for
TruncateOneMore(all_q, q_count) == SliceTo(all_q, q_count + 1)

\* selected_qs = all_q[:q_count]
Truncate(all_q, q_count) == SliceTo(all_q, q_count)

\* session after lines 299-304
StartedSession(selected_qs, is_review) ==
    [active |-> TRUE, quiz_queue |-> selected_qs, total_in_session |-> Len(selected_qs),
     correct_count |-> 0, combo |-> 0, is_review_mode |-> is_review, last_result |-> <<>>]

StartStudy(mode, cat, q_count, is_review) ==
    LET all_q == FilteredPool(mode, cat, is_review, get_storage(cookie))
        form == <<[mode |-> mode, cat |-> cat, q_count |-> q_count, review |-> is_review]>>
    IN  /\ IF all_q = <<>>
           THEN /\ session' = EmptySession
                /\ resp' = [Response("start_study", 302, "index") EXCEPT !.form = form]
           ELSE \E shuffled \in Shuffles(all_q) :
                /\ session' = StartedSession(Truncate(shuffled, q_count), is_review)
                /\ resp' = [Response("start_study", 302, "study") EXCEPT !.form = form]
        /\ UNCHANGED <<csv, cookie, USE_AI_GRADING, inflight>>

(***************************************************************************)
(* GET /study                                                              *)
(***************************************************************************)
Digit(n) == CASE n = 1 -> "1" [] n = 2 -> "2" [] n = 3 -> "3" [] OTHER -> "0"

\* f"選択肢_{len(choices)}"
Placeholder(n) == <<"U9078", "U629E", "U80A2", "_", Digit(n)>>

RECURSIVE PadChoices(_)
PadChoices(choices) ==
    IF Len(choices) < 4 THEN PadChoices(Append(choices, Placeholder(Len(choices)))) ELSE choices

\* choices before the shuffle
BuildChoices(card) ==
    PadChoices(<<strip(card.back)>> \o [i \in 1..Len(card.dummies) |-> strip(card.dummies[i])])

\* mode_map.get(card['id'][0], 'fill')
CurrentMode(card) ==
    CASE card.id.tag = "o" -> "ox"
      [] card.id.tag = "e" -> "essay"
      [] OTHER -> "fill"

Study ==
    /\ IF session.last_result = <<>> /\ session.quiz_queue = <<>>
       THEN resp' = Response("study", 302,
                             IF session.total_in_session # 0 THEN "show_result" ELSE "index")
       ELSE IF session.last_result # <<>>
       THEN resp' = [Response("study", 200, "") EXCEPT !.page = "result"]
       ELSE LET card == session.quiz_queue[1]
            IN  \E choices \in (IF CurrentMode(card) = "fill"
                                THEN Shuffles(BuildChoices(card)) ELSE {<<>>}) :
                    resp' = [Response("study", 200, "") EXCEPT
                                !.page = "question", !.choices = choices]
    /\ UNCHANGED <<csv, cookie, session, USE_AI_GRADING, inflight>>

(***************************************************************************)
(* POST /answer/<card_id>                                                  *)
(***************************************************************************)
NormalizeAnswer(text) == RemoveNewlines(strip(text))

\* storage['wrong_list'] after lines 416-426
UpdateWrongList(wrong_list, card_id, is_correct, is_review_mode) ==
    LET has == \E k \in 1..Len(wrong_list) : wrong_list[k] = card_id
    IN  IF is_correct
        THEN IF is_review_mode /\ has
             THEN SelectSeq(wrong_list, LAMBDA i : i # card_id)
             ELSE wrong_list
        ELSE IF ~has THEN Append(wrong_list, card_id) ELSE wrong_list

\* a mutant of AppendLog: the appended log is written back whole
AppendLogUncapped(logs, cat, is_correct) ==
    Append(logs, [date |-> Today, cat |-> cat, correct |-> is_correct])

\* a mutant of AppendLog: the cap keeps the first CAP entries
AppendLogKeepsOldest(logs, cat, is_correct) ==
    SliceTo(Append(logs, [date |-> Today, cat |-> cat, correct |-> is_correct]), CAP)

\* storage['logs'] after lines 429-436
AppendLog(logs, cat, is_correct) ==
    SliceLast(Append(logs, [date |-> Today, cat |-> cat, correct |-> is_correct]), CAP)

\* a mutant of NextCombo: an incorrect answer leaves the combo as it was
NextComboKeepsOnMiss(combo, is_correct) == IF is_correct THEN combo + 1 ELSE combo

\* session['combo'] after lines 418 and 423
NextCombo(combo, is_correct) == IF is_correct THEN combo + 1 ELSE 0

\* a mutant of ResultPosition: the position is taken before the head is popped
ResultPositionBeforePop(total, queue) == total - (Len(queue) + 1)

\* idx = session['total_in_session'] - len(session['quiz_queue']), after the pop
ResultPosition(total, queue) == total - Len(queue)

\* entries of the log written during the run
Recorded(logs) == Cardinality({i \in 1..Len(logs) : logs[i].date = Today})

\* a mutant of RejectSubmit: the redirect also writes the decoded store back
RejectSubmitRewritesStore ==
    /\ resp' = Response("answer", 302, "index")
    /\ cookie' = json_dumps(get_storage(cookie))
    /\ UNCHANGED <<csv, session, USE_AI_GRADING, inflight>>

\* lines 382-383: without a queue the request is redirected home
RejectSubmit ==
    /\ resp' = Response("answer", 302, "index")
    /\ UNCHANGED <<csv, cookie, session, USE_AI_GRADING, inflight>>

\* What answer does with a request that carries the session sess and the cookie
\* raw: the status and target of its response, the session and the cookie it
\* sets (<<>> when it sets none) and what it graded.
AnswerOutcome(sess, raw, card_id, form_answer, ai) ==
    IF sess.quiz_queue = <<>>
    THEN [status |-> 302, to |-> "index", session |-> <<>>, cookie |-> <<>>, graded |-> <<>>]
    ELSE LET card == sess.quiz_queue[1]
             storage == get_storage(raw)
             current_mode == CurrentMode(card)
             user_answer == NormalizeAnswer(form_answer)
             correct_answer == NormalizeAnswer(card.back)
             evaluation == evaluate_essay_with_ai(card.back, user_answer, ai)
         IN  IF current_mode = "essay" /\ SubscriptRaises(evaluation)
             THEN \* line 407 raises: the request ends in a 500 response
                  [status |-> 500, to |-> "", session |-> <<>>, cookie |-> <<>>,
                   graded |-> <<>>]
             ELSE LET is_correct == IF current_mode = "essay" THEN evaluation.is_correct
                                    ELSE user_answer = correct_answer
                      queue == Tail(sess.quiz_queue)
                      idx == ResultPosition(sess.total_in_session, queue)
                      newStorage ==
                          [storage EXCEPT
                              !.wrong_list = UpdateWrongList(@, card_id, is_correct,
                                                             sess.is_review_mode),
                              !.logs = AppendLog(@, card.category, is_correct)]
                  IN  [status |-> 302, to |-> "study",
                       session |-> <<[sess EXCEPT
                              !.correct_count = IF is_correct THEN @ + 1 ELSE @,
                              !.combo = NextCombo(@, is_correct),
                              !.quiz_queue = queue,
                              !.last_result =
                                  <<[card |-> card, is_correct |-> is_correct, current |-> idx,
                                     progress |-> IntPct(idx, sess.total_in_session),
                                     ai_feedback |-> IF current_mode = "essay"
                                                     THEN <<evaluation>> ELSE <<>>]>>]>>,
                       cookie |-> <<json_dumps(newStorage)>>,
                       graded |-> <<[card_id |-> card_id, card |-> card,
                                     user_answer |-> user_answer,
                                     is_correct |-> is_correct]>>]

\* the request and its response in one step
Answer(card_id, form_answer, ai) ==
    IF session.quiz_queue = <<>>
    THEN RejectSubmit
    ELSE LET o == AnswerOutcome(session, cookie, card_id, form_answer, ai)
         IN  IF o.status = 500
             THEN /\ resp' = Response("answer", 500, "")
                  /\ UNCHANGED <<csv, cookie, session, USE_AI_GRADING, inflight>>
             ELSE /\ Recorded(get_storage(cookie).logs) < MaxSubmits
                  /\ session' = o.session[1]
                  /\ cookie' = o.cookie[1]
                  /\ resp' = [Response("answer", 302, "study") EXCEPT !.graded = o.graded]
                  /\ UNCHANGED <<csv, USE_AI_GRADING, inflight>>

(***************************************************************************)
(* GET /next_question, GET /result, GET /home                              *)
(***************************************************************************)
NextQuestion ==
    /\ session' = [session EXCEPT !.last_result = <<>>]
    /\ resp' = Response("next_question", 302, "study")
    /\ UNCHANGED <<csv, cookie, USE_AI_GRADING, inflight>>

\* a mutant of GoHome: only the pending result is dropped
GoHomeKeepsQueue ==
    /\ session' = [session EXCEPT !.last_result = <<>>]
    /\ resp' = Response("home", 302, "index")
    /\ UNCHANGED <<csv, cookie, USE_AI_GRADING, inflight>>

\* a mutant of ResultScore: the percentage rounded to the nearest integer
ResultScoreRounded(c, t) == IF t > 0 THEN (200 * c + t) \div (2 * t) ELSE 0

\* score = int((c/t)*100) if t > 0 else 0
ResultScore(c, t) == IF t > 0 THEN IntPct(c, t) ELSE 0

ShowResult ==
    /\ resp' = [Response("show_result", 200, "") EXCEPT
                    !.page = "result_summary",
                    !.score = ResultScore(session.correct_count, session.total_in_session)]
    /\ UNCHANGED <<csv, cookie, session, USE_AI_GRADING, inflight>>

GoHome ==
    /\ session' = EmptySession
    /\ resp' = Response("home", 302, "index")
    /\ UNCHANGED <<csv, cookie, USE_AI_GRADING, inflight>>

(***************************************************************************)
(* The client: the requests it sends and the cookie it starts with.        *)
(***************************************************************************)
\* an activity log of n entries written on earlier days (entry i on day i)
OldLog(n) ==
    [i \in 1..n |-> [date |-> i,
                     cat |-> IF i % 2 = 0 THEN Machines ELSE Theory,
                     correct |-> (i % 3 = 0)]]

EssayBack == Repeat("a", 12) \o Repeat("b", 8)

\* the files of the main specification: two o/x questions, a short row that the
\* loader skips, one essay question, and no fill-in-the-blank file
MainCsv ==
    { [folder |-> "normal", prefix |-> "ox_", stem |-> "denki",
       rows |-> << <<Theory, <<"q">>, <<" ", "x">>, <<"n">> >>,
                   <<Machines, <<"q">> >>,
                   <<Theory, <<"q">>, <<"x", "LF">> >> >>],
      [folder |-> "essay", prefix |-> "", stem |-> "kijutsu",
       rows |-> << <<Theory, <<"q">>, EssayBack, <<"n">> >> >>] }

MainIds ==
    {[tag |-> "o", file |-> "denki", row |-> 0], [tag |-> "o", file |-> "denki", row |-> 2],
     [tag |-> "e", file |-> "kijutsu", row |-> 0]}

\* the user_answer form values a client posts
FormAnswers == {<<" ", "x", "LF">>, <<"w">>, EssayBack}

\* the ids a client puts in the path of POST /answer/<card_id>
PathIds == MainIds

InitCookies ==
    {NoCookie,
     [kind |-> "object", wrong_list |-> JList(<<[tag |-> "o", file |-> "denki", row |-> 0]>>),
      logs |-> JList(OldLog(1)), extra |-> TRUE]}

Init ==
    /\ csv = MainCsv
    /\ cookie \in InitCookies
    /\ session = EmptySession
    /\ USE_AI_GRADING \in BOOLEAN
    /\ resp = Response("init", 200, "")
    /\ inflight = <<>>

\* the form of the home page; with review = 'true' the handler reads neither mode nor cat
StartStudyRequest ==
    \/ \E mode \in Modes, cat \in Categories, q_count \in 0..MaxCount :
            StartStudy(mode, cat, q_count, FALSE)
    \/ \E q_count \in 0..MaxCount : StartStudy("fill", AllCategories, q_count, TRUE)

\* the grading service is called for an essay question when a credential is configured
GradingCalls ==
    IF /\ USE_AI_GRADING
       /\ session.quiz_queue # <<>>
       /\ CurrentMode(session.quiz_queue[1]) = "essay"
    THEN AiOutcomes
    ELSE {AiRaise}

AnswerRequest ==
    \E card_id \in PathIds, form_answer \in FormAnswers, ai \in GradingCalls :
        Answer(card_id, form_answer, ai)

Next ==
    \/ Index
    \/ StartStudyRequest
    \/ Study
    \/ AnswerRequest
    \/ NextQuestion
    \/ ShowResult
    \/ GoHome

Spec == Init /\ [][Next]_vars

(***************************************************************************)
(* Claims about the session and the missed list (specification Spec).      *)
(***************************************************************************)
Has(seq, x) == \E k \in 1..Len(seq) : seq[k] = x
NoDuplicates(seq) == \A i, j \in 1..Len(seq) : i # j => seq[i] # seq[j]
MissedIds(raw) == get_storage(raw).wrong_list
Min(a, b) == IF a < b THEN a ELSE b

\* the step is a recorded answer (the verdict was applied and the cookie written)
Recorded_Answer_Step == resp'.route = "answer" /\ resp'.graded # <<>>

\* C3: a correct answer to question X (the queue head, posted under X's own id)
\* removes X from missed_ids, whatever the study mode of the session.
C3_CorrectRemovesInEveryMode ==
    [][(/\ Recorded_Answer_Step
        /\ resp'.graded[1].is_correct
        /\ resp'.graded[1].card_id = resp'.graded[1].card.id
        /\ Has(MissedIds(cookie), resp'.graded[1].card.id))
       => ~Has(MissedIds(cookie'), resp'.graded[1].card.id)]_vars

\* C4: an incorrect answer to question X (the queue head, the question the verdict
\* is about) leaves X in missed_ids, and a duplicate-free missed_ids stays so.
C4_IncorrectAddsOnce ==
    [][(Recorded_Answer_Step /\ NoDuplicates(MissedIds(cookie)))
       => /\ NoDuplicates(MissedIds(cookie'))
          /\ (~resp'.graded[1].is_correct
                => Has(MissedIds(cookie'), resp'.graded[1].card.id))]_vars

\* the same for the requests whose path id is the id of the question graded (it
\* holds; see C4)
IncorrectAddsOnceWhenPathMatches ==
    [][(/\ Recorded_Answer_Step
        /\ NoDuplicates(MissedIds(cookie))
        /\ resp'.graded[1].card_id = resp'.graded[1].card.id)
       => /\ NoDuplicates(MissedIds(cookie'))
          /\ (~resp'.graded[1].is_correct
                => Has(MissedIds(cookie'), resp'.graded[1].card.id))]_vars

\* C5: after a start request for a count of q_count questions (a count: a
\* non-negative integer, as min(count, |pool|) being a queue length takes), with the
\* filtered pool empty the session is cleared and the client is sent home;
\* otherwise the queue holds min(q_count, |pool|) pairwise distinct questions of
\* the pool, total is the queue length, correct_count = 0, combo = 0, no result
\* is pending, and the request did not fail.
C5_StartBuildsSession ==
    (resp.route = "start_study") =>
        LET form == resp.form[1]
            pool == FilteredPool(form.mode, form.cat, form.review, get_storage(cookie))
            queue == session.quiz_queue
        IN  /\ resp.status = 302
            /\ IF pool = <<>>
               THEN session = EmptySession /\ resp.to = "index"
               ELSE /\ session.active
                    /\ Len(queue) = Min(form.q_count, Len(pool))
                    /\ NoDuplicates(queue)
                    /\ \A i \in 1..Len(queue) : Has(pool, queue[i])
                    /\ session.total_in_session = Len(queue)
                    /\ session.correct_count = 0
                    /\ session.combo = 0
                    /\ session.last_result = <<>>
                    /\ session.is_review_mode = form.review
                    /\ resp.to = "study"

\* C5 witness: a start asking for two questions when the filtered pool (the
\* review pool of the one missed question) holds fewer
C5_Witness ==
    /\ resp.route = "start_study"
    /\ resp.form[1].review
    /\ resp.form[1].q_count = 2
    /\ Len(FilteredPool("fill", AllCategories, TRUE, get_storage(cookie))) = 1
    /\ Len(session.quiz_queue) = 1
    /\ session.total_in_session = 1

\* C7: an essay submit never fails, whatever the grading call returns.
C7_EssaySubmitNeverFails == (resp.route = "answer") => resp.status # 500

(***************************************************************************)
(* Specification SpecStore: the Review Store codec. The client starts with *)
(* any cookie of RawCookies: no cookie, text that is not JSON, JSON that   *)
(* is no object, and objects whose members are missing, of the wrong type, *)
(* or lists, with logs around CAP entries (a cookie written by a variant   *)
(* of the application with a larger cap holds more than CAP).              *)
(***************************************************************************)
JNull == [t |-> "null", v |-> <<>>]
JString == [t |-> "str", v |-> <<"j">>]

WrongListMembers ==
    {Missing, JNull, JString, JList(<<>>),
     JList(<<[tag |-> "o", file |-> "denki", row |-> 0]>>),
     JList(<<[tag |-> "e", file |-> "kijutsu", row |-> 0],
             [tag |-> "o", file |-> "denki", row |-> 0]>>)}

LogsMembers ==
    {Missing, JNull, JString}
    \cup {JList(OldLog(n)) : n \in {0, 1, CAP - 1, CAP, CAP + 1, CAP + 2}}

RawCookies ==
    {NonObject(k) : k \in {"absent", "empty", "text", "null", "array", "number"}}
    \cup {[kind |-> "object", wrong_list |-> w, logs |-> l, extra |-> e] :
            w \in WrongListMembers, l \in LogsMembers, e \in BOOLEAN}

InitStore ==
    /\ csv = MainCsv
    /\ cookie \in RawCookies
    /\ session = EmptySession
    /\ USE_AI_GRADING = FALSE
    /\ resp = Response("init", 200, "")
    /\ inflight = <<>>

NextStore ==
    \/ Index
    \/ StartStudy("ox", AllCategories, 1, FALSE)
    \/ AnswerRequest

SpecStore == InitStore /\ [][NextStore]_vars

\* the cookie is malformed in the sense of C1
Malformed(raw) ==
    \/ raw.kind # "object"
    \/ raw.wrong_list.t # "list"
    \/ raw.logs.t # "list"

\* C1 as claimed: every malformed cookie decodes to the empty default store.
C1_MalformedDecodesToEmpty ==
    Malformed(cookie) =>
        /\ get_storage(cookie).wrong_list = <<>>
        /\ get_storage(cookie).logs = <<>>

\* C1 amended: get_storage heals member by member. A cookie that is absent, empty,
\* not JSON or no JSON object decodes to the empty default; of a JSON object each
\* of wrong_list and logs that is missing or no list becomes the empty list, while
\* a member that is a list is kept (logs cut to its last CAP entries).
C1_DecodeHealsPerMember ==
    LET st == get_storage(cookie)
    IN  /\ cookie.kind # "object" => st = [wrong_list |-> <<>>, logs |-> <<>>, extra |-> FALSE]
        /\ cookie.kind = "object" =>
              /\ st.wrong_list = IF cookie.wrong_list.t = "list" THEN cookie.wrong_list.v ELSE <<>>
              /\ cookie.logs.t # "list" => st.logs = <<>>
              /\ cookie.logs.t = "list" =>
                    /\ Len(st.logs) = Min(Len(cookie.logs.v), CAP)
                    /\ \A i \in 1..Len(st.logs) :
                          st.logs[i] = cookie.logs.v[Len(cookie.logs.v) - Len(st.logs) + i]

\* C1 witness: the home page was served from an object cookie whose logs member is
\* a string and whose wrong_list holds an id, and it counts that id
C1_Witness ==
    /\ resp.route = "index"
    /\ cookie.kind = "object"
    /\ cookie.logs.t = "str"
    /\ cookie.wrong_list.t = "list"
    /\ resp.wrong_count = 1

\* C2: every store get_storage returns has at most CAP log entries, and the log in
\* the cookie an answer writes back has at most CAP entries.
C2_LogCap ==
    /\ Len(get_storage(cookie).logs) <= CAP
    /\ (resp.route = "answer" /\ resp.graded # <<>>) =>
          /\ cookie.kind = "object"
          /\ cookie.logs.t = "list"
          /\ Len(cookie.logs.v) <= CAP

\* C2 witness: an answer was recorded on top of a log that already held CAP entries
C2_Witness ==
    /\ resp.route = "answer"
    /\ resp.graded # <<>>
    /\ Len(cookie.logs.v) = CAP
    /\ cookie.logs.v[1].date > 1
    /\ Recorded(cookie.logs.v) = MaxSubmits

\* the stores C8 quantifies over: both members lists, the log up to CAP + 2 long
ValidStores ==
    {[wrong_list |-> w.v, logs |-> l.v, extra |-> e] :
        w \in {m \in WrongListMembers : m.t = "list"},
        l \in {m \in LogsMembers : m.t = "list"},
        e \in BOOLEAN}

\* C8: decoding the encoding of a valid store gives the store back, with the log
\* cut to its last CAP entries, in order, when it holds more.
C8_RoundTrip ==
    \A st \in ValidStores :
        cookie = json_dumps(st) =>
            LET back == get_storage(cookie)
                n == Len(st.logs)
            IN  /\ back.wrong_list = st.wrong_list
                /\ back.extra = st.extra
                /\ n <= CAP => back.logs = st.logs
                /\ n > CAP => back.logs = SubSeq(st.logs, n - CAP + 1, n)

\* C8 witness: the home page was served from the encoding of a store whose log
\* holds CAP + 2 entries and whose missed list holds two ids
C8_Witness ==
    /\ resp.route = "index"
    /\ resp.wrong_count = 2
    /\ \E st \in ValidStores : cookie = json_dumps(st) /\ Len(st.logs) = CAP + 2

(***************************************************************************)
(* Specification SpecResult: the summary of a finished session. The        *)
(* session has answered all of its total questions, correct_count of them  *)
(* correctly (total = 0 after a start with q_count = 0).                   *)
(***************************************************************************)
BigCsv ==
    { [folder |-> "normal", prefix |-> "ox_", stem |-> "denki",
       rows |-> [i \in 1..MaxTotal |-> <<Theory, <<"q">>, <<"x">> >>]] }

FinishedSession(t, c) ==
    [active |-> TRUE, quiz_queue |-> <<>>, total_in_session |-> t, correct_count |-> c,
     combo |-> IF c = t THEN c ELSE 0, is_review_mode |-> FALSE, last_result |-> <<>>]

InitResult ==
    /\ csv = BigCsv
    /\ cookie = NoCookie
    /\ \E t \in 0..MaxTotal : \E c \in 0..t : session = FinishedSession(t, c)
    /\ USE_AI_GRADING = FALSE
    /\ resp = Response("init", 200, "")
    /\ inflight = <<>>

NextResult ==
    \/ Study
    \/ ShowResult

SpecResult == InitResult /\ [][NextResult]_vars

\* n is 100 * c / t rounded to the nearest integer
Nearest(n, c, t) == 2 * (100 * c - n * t) <= t /\ 2 * (n * t - 100 * c) <= t

\* C6 as claimed: the summary shows round(correct_count / total * 100), 0 when
\* total = 0, and 67 for 2 of 3.
C6_ScoreRounded ==
    (resp.route = "show_result") =>
        LET t == session.total_in_session
            c == session.correct_count
        IN  /\ t = 0 => resp.score = 0
            /\ t > 0 => Nearest(resp.score, c, t)
            /\ (t = 3 /\ c = 2) => resp.score = 67

\* C6 amended: the summary shows int((correct_count / total) * 100), the
\* percentage with its fraction dropped and not rounded: 0 when total = 0, 66
\* for 2 of 3, floor(100 * c / t) for every total below 50, and for larger
\* totals floor(100 * c / t) or, where the floating-point product falls just
\* short of a whole percentage (29 of 50 gives 57), one less; always in 0..100.
C6_ScoreTruncated ==
    (resp.route = "show_result") =>
        LET t == session.total_in_session
            c == session.correct_count
            n == resp.score
        IN  /\ t = 0 => n = 0
            /\ t > 0 => /\ n * t <= 100 * c
                        /\ 100 * c < (n + 2) * t
                        /\ (100 * c >= (n + 1) * t) => (100 * c = (n + 1) * t /\ t >= 50)
            /\ (t = 3 /\ c = 2) => n = 66
            /\ n \in 0..100

\* C6 witness: the summary of a session with 2 of 3 correct shows 66
C6_Witness ==
    /\ resp.route = "show_result"
    /\ session.total_in_session = 3
    /\ session.correct_count = 2
    /\ resp.score = 66

(***************************************************************************)
(* Specification SpecEssay: the heuristic essay evaluator. No grading      *)
(* credential is configured; the one essay question has a canonical answer *)
(* of EssayCanonicals and the client posts a text of EssaySubmissions.     *)
(***************************************************************************)
EssayCanonicals ==
    {Repeat("a", 3), Repeat("a", 19), Repeat("a", 20), EssayBack,
     Repeat("a", 10) \o <<" ">> \o Repeat("B", 10)}

EssayTexts ==
    EssayCanonicals
    \cup {<<>>, Repeat("A", 20), Repeat("c", 20), Repeat("b", 19), Repeat("b", 21),
          Repeat("a", 10) \o Repeat("c", 10)}

Blanks(n) == Repeat(" ", n)

EssaySubmissions ==
    {Blanks(l) \o text \o Blanks(r) : text \in EssayTexts, l \in 0..MaxPad, r \in {0, MaxPad}}
    \cup {text \o <<"LF">> : text \in EssayTexts}

EssayCsv(back) ==
    { [folder |-> "essay", prefix |-> "", stem |-> "kijutsu",
       rows |-> << <<Theory, <<"q">>, back, <<"n">> >> >>] }

InitEssay ==
    /\ \E back \in EssayCanonicals : csv = EssayCsv(back)
    /\ cookie = NoCookie
    /\ session = EmptySession
    /\ USE_AI_GRADING = FALSE
    /\ resp = Response("init", 200, "")
    /\ inflight = <<>>

EssayAnswerRequest ==
    \E form_answer \in EssaySubmissions :
        /\ session.quiz_queue # <<>>
        /\ Answer(session.quiz_queue[1].id, form_answer, AiRaise)

NextEssay ==
    \/ StartStudy("essay", AllCategories, 1, FALSE)
    \/ EssayAnswerRequest
    \/ NextQuestion

SpecEssay == InitEssay /\ [][NextEssay]_vars

\* an essay answer was graded: its verdict is the pending result's ai_feedback
EssayGraded ==
    /\ resp.route = "answer"
    /\ resp.graded # <<>>
    /\ session.last_result # <<>>
    /\ session.last_result[1].ai_feedback # <<>>

\* C9 as claimed: a submission of fewer than 20 trimmed characters scores 0 and is
\* incorrect, and a submission identical to the canonical answer scores 100 and is
\* correct.
C9_HeuristicBoundaries ==
    EssayGraded =>
        LET v == session.last_result[1].ai_feedback[1]
            user_answer == resp.graded[1].user_answer
        IN  /\ Len(strip(user_answer)) < MinLength => (v.score = 0 /\ ~v.is_correct)
            /\ user_answer = resp.graded[1].card.back => (v.score = 100 /\ v.is_correct)

\* C9 amended: a submission of fewer than 20 trimmed characters scores 0 and is
\* incorrect whatever its content, also when it is identical to the canonical
\* answer; a submission identical to a canonical answer of at least 20 trimmed
\* characters scores 100 and is correct.
C9_HeuristicBoundariesLengthFirst ==
    EssayGraded =>
        LET v == session.last_result[1].ai_feedback[1]
            user_answer == resp.graded[1].user_answer
        IN  /\ Len(strip(user_answer)) < MinLength => (v.score = 0 /\ ~v.is_correct)
            /\ (user_answer = resp.graded[1].card.back /\ Len(strip(user_answer)) >= MinLength)
                  => (v.score = 100 /\ v.is_correct)

\* C9 witness: a submission of exactly 20 characters, identical to the canonical
\* answer, was graded 100 and correct
C9_Witness ==
    /\ EssayGraded
    /\ resp.graded[1].user_answer = resp.graded[1].card.back
    /\ Len(resp.graded[1].user_answer) = MinLength
    /\ session.last_result[1].ai_feedback[1].score = 100
    /\ session.last_result[1].is_correct

(***************************************************************************)
(* Specification SpecChoices: the choice list of a fill-in-the-blank       *)
(* question. The taku4 folder holds one file of one row; the client starts *)
(* a session, loads the question page and posts one of the choices shown.  *)
(***************************************************************************)
FillBacks == {<<"x">>, Placeholder(1), Placeholder(3)}

\* the cells after the explanation column
DistractorColumns(back) ==
    {<<>>,
     << <<"y">> >>,
     << <<"y">>, <<>> >>,
     << <<>>, <<" ">> \o back, <<"y">> >>,
     << <<"y">>, <<"w">> >>,
     << <<"y">>, <<"w">>, <<"v">> >>,
     << <<"y">>, <<"y">>, <<"y", "LF">> >>,
     << <<"y">>, <<"w">>, <<"v">>, <<"u">> >>,
     << Placeholder(2) >>}

FillCsv(row) == { [folder |-> "taku4", prefix |-> "", stem |-> "denki", rows |-> <<row>>] }

InitChoices ==
    /\ \E back \in FillBacks : \E cols \in DistractorColumns(back) :
          csv = FillCsv(<<Theory, <<"q">>, back, <<"n">> >> \o cols)
    /\ cookie = NoCookie
    /\ session = EmptySession
    /\ USE_AI_GRADING = FALSE
    /\ resp = Response("init", 200, "")
    /\ inflight = <<>>

\* the client presses one of the buttons of the question page
ChoiceAnswerRequest ==
    /\ resp.route = "study"
    /\ resp.page = "question"
    /\ \E k \in 1..Len(resp.choices) :
          Answer(session.quiz_queue[1].id, resp.choices[k], AiRaise)

NextChoices ==
    \/ StartStudy("fill", AllCategories, 1, FALSE)
    \/ Study
    \/ ChoiceAnswerRequest

SpecChoices == InitChoices /\ [][NextChoices]_vars

\* the placeholders the page adds for a card
SyntheticChoices(card) == {Placeholder(n) : n \in (1 + Len(card.dummies))..3}

FillQuestionShown ==
    /\ resp.route = "study"
    /\ resp.page = "question"
    /\ CurrentMode(session.quiz_queue[1]) = "fill"

\* C10: the question page of every fill-in-the-blank question with 0 to 3 distractors
\* shows exactly 4 choices with the canonical answer among them exactly once, and
\* an answer graded correct is never one of the placeholders added for the card.
C10_ChoiceSet ==
    /\ FillQuestionShown =>
          /\ Len(session.quiz_queue[1].dummies) \in 0..3
          /\ Len(resp.choices) = 4
          /\ Count(resp.choices, strip(session.quiz_queue[1].back)) = 1
    /\ (resp.route = "answer" /\ resp.graded # <<>> /\ resp.graded[1].is_correct) =>
          resp.graded[1].user_answer \notin SyntheticChoices(resp.graded[1].card)

\* the same for the questions whose canonical answer is not itself one of the
\* strings the page pads with (it holds; see C10)
ChoiceSetUnlessAnswerIsPlaceholder ==
    /\ (FillQuestionShown /\ session.quiz_queue[1].back \notin SyntheticChoices(session.quiz_queue[1])) =>
          /\ Len(resp.choices) = 4
          /\ Count(resp.choices, strip(session.quiz_queue[1].back)) = 1
    /\ (/\ resp.route = "answer" /\ resp.graded # <<>> /\ resp.graded[1].is_correct
        /\ resp.graded[1].card.back \notin SyntheticChoices(resp.graded[1].card)) =>
          resp.graded[1].user_answer \notin SyntheticChoices(resp.graded[1].card)

FourChoicesAlways == FillQuestionShown => Len(resp.choices) = 4

(***************************************************************************)
(* Claims about the session life cycle (specification Spec).               *)
(***************************************************************************)
\* the state of the session as study (lines 311-345) tells it
ShowingResult == session.last_result # <<>>
ShowingQuestion == session.last_result = <<>> /\ session.quiz_queue # <<>>
Complete ==
    session.last_result = <<>> /\ session.quiz_queue = <<>> /\ session.total_in_session > 0
Idle ==
    session.last_result = <<>> /\ session.quiz_queue = <<>> /\ session.total_in_session = 0

\* C11: a submit issued when the session has no queue (idle, or the queue is
\* exhausted) is redirected home and changes nothing: the session is unchanged
\* and the cookie of the review store is not written.
C11_SubmitWithoutQueueChangesNothing ==
    [][(resp'.route = "answer" /\ session.quiz_queue = <<>>)
       => /\ resp'.status = 302 /\ resp'.to = "index"
          /\ session' = session
          /\ cookie' = cookie]_vars

\* a submit was redirected home with the queue exhausted and the last result
\* still pending
C11_Witness ==
    /\ resp.route = "answer" /\ resp.to = "index"
    /\ session.quiz_queue = <<>>
    /\ session.total_in_session > 0
    /\ ShowingResult

\* C12: GET /home clears the session (queue, counters, pending result) from
\* every state and leaves the cookie of the review store untouched.
C12_AbortClearsSessionOnly ==
    [][resp'.route = "home"
       => /\ session' = EmptySession
          /\ resp'.status = 302 /\ resp'.to = "index"
          /\ cookie' = cookie]_vars

\* the client went home after an answer of this run was recorded
C12_Witness ==
    /\ resp.route = "home"
    /\ session = EmptySession
    /\ Recorded(get_storage(cookie).logs) > 0
    /\ get_storage(cookie).wrong_list # <<>>

\* C13: a submit issued while a result is pending does not grade or pop a
\* question: session (queue, counters, pending result) and store are unchanged.
C13_SubmitOnlyWhenShowingQuestion ==
    [][(resp'.route = "answer" /\ session.last_result # <<>>)
       => /\ session' = session
          /\ get_storage(cookie') = get_storage(cookie)]_vars

(***************************************************************************)
(* One session of a client that keeps answering and advancing               *)
(* (specification SpecLive): the form of the home page is posted once, then *)
(* the client only looks at the study page, submits and advances.           *)
(***************************************************************************)
StartOnce == resp.route = "init" /\ StartStudyRequest

NextLive ==
    \/ StartOnce
    \/ Study
    \/ AnswerRequest
    \/ NextQuestion

SpecLive ==
    /\ Init
    /\ [][NextLive]_vars
    /\ WF_vars(AnswerRequest)
    /\ WF_vars(NextQuestion)

\* submits accepted so far (one log entry of today each)
AcceptedSubmits == Recorded(get_storage(cookie).logs)

\* what GET /study answered agrees with the state of the session, and the
\* accepted submits are the questions gone from the queue
LifecycleOrder ==
    /\ (resp.route = "study" /\ session.total_in_session > 0) =>
          /\ (resp.page = "result") <=> ShowingResult
          /\ (resp.page = "question") <=> ShowingQuestion
          /\ (resp.status = 302 /\ resp.to = "show_result") <=> Complete
    /\ session.total_in_session > 0 =>
          AcceptedSubmits = session.total_in_session - Len(session.quiz_queue)

\* C14: a started session shows the result page exactly when a result is
\* pending, a question exactly when none is pending and the queue is non-empty,
\* and is complete exactly when none is pending and the queue is empty; and a
\* client that keeps submitting and advancing eventually reaches Complete, after
\* exactly total accepted submits.
C14_Lifecycle ==
    /\ []LifecycleOrder
    /\ (session.total_in_session > 0)
          ~> (Complete /\ AcceptedSubmits = session.total_in_session)

\* the same session when no credential of the grading service is configured
\* (it holds; see C14)
LifecycleWithoutGradingService ==
    /\ []LifecycleOrder
    /\ (session.total_in_session > 0 /\ ~USE_AI_GRADING)
          ~> (Complete /\ AcceptedSubmits = session.total_in_session)

\* the last question was answered and its result is on the page
LastResultShown ==
    resp.route = "study" /\ resp.page = "result" /\ session.quiz_queue = <<>>

(***************************************************************************)
(* Specification SpecSimilarity: the score of the heuristic essay          *)
(* evaluator. The canonical answer has 3, 42 or MaxDistinct distinct        *)
(* characters; a submission shares 0..MaxDistinct of them and is long        *)
(* enough to be scored.                                                    *)
(***************************************************************************)
MaxDistinct == 50

\* n distinct characters
Glyphs(n) == [i \in 1..n |-> ToString(i)]

SimilarityCanonicals == {Glyphs(3), Glyphs(42), Glyphs(MaxDistinct), <<"A", "B", "c">>}

SimilaritySubmissions ==
    {Glyphs(n) \o Repeat("z", MinLength) : n \in 0..MaxDistinct}
    \cup {<<"a", "B">> \o Repeat("z", MinLength), <<"a", "b", "C">> \o Repeat("z", MinLength)}

InitSimilarity ==
    /\ \E back \in SimilarityCanonicals : csv = EssayCsv(back)
    /\ cookie = NoCookie
    /\ session = EmptySession
    /\ USE_AI_GRADING = FALSE
    /\ resp = Response("init", 200, "")
    /\ inflight = <<>>

SimilarityAnswerRequest ==
    \E form_answer \in SimilaritySubmissions :
        /\ session.quiz_queue # <<>>
        /\ Answer(session.quiz_queue[1].id, form_answer, AiRaise)

NextSimilarity ==
    \/ StartStudy("essay", AllCategories, 1, FALSE)
    \/ SimilarityAnswerRequest
    \/ NextQuestion

SpecSimilarity == InitSimilarity /\ [][NextSimilarity]_vars

\* distinct characters of the canonical answer, and those the submission shares
\* (letters compared without regard to case)
DistinctOfCanonical == Cardinality(CharSet(lower(resp.graded[1].card.back)))
DistinctShared ==
    Cardinality(CharSet(lower(resp.graded[1].user_answer))
                \cap CharSet(lower(resp.graded[1].card.back)))

\* C15 as claimed: for a submission of at least 20 trimmed characters the score is
\* 100 * s / m rounded to the nearest integer (s shared distinct characters, m
\* distinct characters of the canonical answer), the verdict is correct exactly
\* when score >= 60, and s/m = 25/42 gives 60 and a correct verdict.
C15_ScoreRoundedToNearest ==
    (EssayGraded /\ Len(strip(resp.graded[1].user_answer)) >= MinLength) =>
        LET v == session.last_result[1].ai_feedback[1]
        IN  /\ Nearest(v.score, DistinctShared, DistinctOfCanonical)
            /\ v.is_correct <=> (v.score >= PassScore)
            /\ (DistinctShared = 25 /\ DistinctOfCanonical = 42)
                  => (v.score = 60 /\ v.is_correct)

\* C15 amended: the score is int((s / m) * 100), the percentage with its fraction
\* dropped and not rounded: floor(100 * s / m) for every m below 50, and for
\* larger m floor(100 * s / m) or, where the floating-point product falls just
\* short of a whole percentage, one less; the verdict is correct exactly when
\* score >= 60; s/m = 25/42 gives 59 and an incorrect verdict.
C15_ScoreTruncated ==
    (EssayGraded /\ Len(strip(resp.graded[1].user_answer)) >= MinLength) =>
        LET v == session.last_result[1].ai_feedback[1]
            n == v.score
            c == DistinctShared
            t == DistinctOfCanonical
        IN  /\ n * t <= 100 * c
            /\ 100 * c < (n + 2) * t
            /\ (100 * c >= (n + 1) * t) => (100 * c = (n + 1) * t /\ t >= 50)
            /\ v.is_correct <=> (n >= PassScore)
            /\ (c = 25 /\ t = 42) => (n = 59 /\ ~v.is_correct)

\* C15 witness: a submission sharing 25 of the 42 distinct characters of the
\* canonical answer was graded 59 and incorrect
C15_Witness ==
    /\ EssayGraded
    /\ Len(strip(resp.graded[1].user_answer)) >= MinLength
    /\ DistinctShared = 25
    /\ DistinctOfCanonical = 42
    /\ session.last_result[1].ai_feedback[1].score = 59
    /\ ~session.last_result[1].is_correct

(***************************************************************************)
(* Claims about the counters and the log of a session (specification Spec). *)
(***************************************************************************)
\* the verdicts of this session in the order given: each accepted submit appends
\* one log entry, so they are the last total - len(queue) entries of the log
SessionVerdicts ==
    LET logs == get_storage(cookie).logs
        k == session.total_in_session - Len(session.quiz_queue)
    IN  IF k > 0 THEN SliceLast(logs, k) ELSE <<>>

\* number of consecutive correct entries at the end of seq
RECURSIVE TrailingCorrect(_)
TrailingCorrect(seq) ==
    IF seq = <<>> \/ ~seq[Len(seq)].correct THEN 0
    ELSE 1 + TrailingCorrect(SubSeq(seq, 1, Len(seq) - 1))

\* C16: combo is the number of consecutive correct verdicts at the end of the
\* session's verdict sequence (so 0 right after start, one more after a correct
\* answer, 0 after an incorrect one), and GET /next_question leaves it unchanged.
C16_ComboIsStreak ==
    /\ [](session.combo = TrailingCorrect(SessionVerdicts))
    /\ [][resp'.route = "start_study" => session'.combo = 0]_vars
    /\ [][resp'.route = "next_question" => session'.combo = session.combo]_vars

\* an incorrect answer has just broken a streak of one
C16_Witness ==
    /\ resp.route = "answer" /\ resp.graded # <<>>
    /\ ~resp.graded[1].is_correct
    /\ session.correct_count = 1
    /\ Len(SessionVerdicts) = 2
    /\ session.combo = 0

\* C17: a recorded answer appends exactly one log entry whose correct flag is the
\* verdict of that answer, and the log written back is the last CAP entries of
\* the decoded previous log followed by the new entry: the entries before the new
\* one are the most recent entries of the previous log, in their order.
C17_LogAppendsInOrder ==
    [][Recorded_Answer_Step =>
        LET prev == get_storage(cookie).logs
            new == cookie'.logs.v
            kept == Len(new) - 1
        IN  /\ cookie'.kind = "object" /\ cookie'.logs.t = "list"
            /\ Len(new) = Min(Len(prev) + 1, CAP)
            /\ new[Len(new)].correct = resp'.graded[1].is_correct
            /\ new[Len(new)].cat = resp'.graded[1].card.category
            /\ new[Len(new)].date = Today
            /\ \A i \in 1..kept : new[i] = prev[Len(prev) - kept + i]]_vars

\* an answer was recorded in a full log: the entry of day 1 was dropped and the
\* new entry, holding the verdict, is the last of CAP
C17_Witness ==
    /\ resp.route = "answer" /\ resp.graded # <<>>
    /\ cookie.kind = "object"
    /\ Len(cookie.logs.v) = CAP
    /\ cookie.logs.v[1].date = 2
    /\ cookie.logs.v[CAP].date = Today
    /\ cookie.logs.v[CAP].correct = resp.graded[1].is_correct
    /\ ~resp.graded[1].is_correct

(***************************************************************************)
(* Specification SpecOverlap: submits whose responses are still on the way. *)
(* The session and the review store live in two cookies of the client; a    *)
(* request carries their values as they are when it is sent, the handler    *)
(* works on those, and the client takes over the cookies a response sets    *)
(* when the response arrives.                                              *)
(***************************************************************************)
MaxInflight == 2

\* POST /answer/<card_id> is sent; its response is computed from the values carried
SendAnswer(card_id, form_answer, ai) ==
    LET o == AnswerOutcome(session, cookie, card_id, form_answer, ai)
    IN  /\ Len(inflight) < MaxInflight
        /\ Recorded(get_storage(cookie).logs) < MaxSubmits
        /\ inflight' = Append(inflight,
                [outcome |-> o,
                 request |-> [card_id |-> card_id, form_answer |-> form_answer, ai |-> ai],
                 carried |-> [session |-> session, cookie |-> cookie]])
        /\ UNCHANGED <<csv, cookie, session, USE_AI_GRADING, resp>>

\* the user_answer values of the o/x form
OverlapAnswers == {<<"x">>, <<"w">>}

\* the form of the question on display is posted (twice, for a double click)
SendAnswerRequest ==
    \E form_answer \in OverlapAnswers :
        /\ session.quiz_queue # <<>>
        /\ SendAnswer(session.quiz_queue[1].id, form_answer, AiRaise)

\* the client's cookies after a response: a cookie the response sets replaces the
\* client's value
AfterResponse(state, o) ==
    [session |-> IF o.session # <<>> THEN o.session[1] ELSE state.session,
     cookie |-> IF o.cookie # <<>> THEN o.cookie[1] ELSE state.cookie]

\* one of the responses on the way arrives
ReceiveAnswer ==
    \E i \in 1..Len(inflight) :
        LET r == inflight[i]
            after == AfterResponse([session |-> session, cookie |-> cookie], r.outcome)
        IN  /\ session' = after.session
            /\ cookie' = after.cookie
            /\ resp' = [Response("answer", r.outcome.status, r.outcome.to) EXCEPT
                            !.graded = r.outcome.graded,
                            !.form = <<[request |-> r.request, carried |-> r.carried]>>]
            /\ inflight' = SubSeq(inflight, 1, i - 1) \o SubSeq(inflight, i + 1, Len(inflight))
            /\ UNCHANGED <<csv, USE_AI_GRADING>>

InitOverlap ==
    /\ csv = MainCsv
    /\ cookie \in InitCookies
    /\ session = EmptySession
    /\ USE_AI_GRADING = FALSE
    /\ resp = Response("init", 200, "")
    /\ inflight = <<>>

NextOverlap ==
    \/ StartStudy("ox", AllCategories, MaxCount, FALSE)
    \/ SendAnswerRequest
    \/ ReceiveAnswer
    \/ NextQuestion

SpecOverlap == InitOverlap /\ [][NextOverlap]_vars

\* the client's cookies after a submit of request on state has been answered
SubmitOn(state, request) ==
    AfterResponse(state, AnswerOutcome(state.session, state.cookie, request.card_id,
                                       request.form_answer, request.ai))

\* the step takes in the second of two responses whose requests carried the same
\* session and store: the first one is the response received last, applied to
\* the values both carried, and no other response is on the way
SecondOfOverlappingPair ==
    /\ resp.route = "answer" /\ resp.form # <<>>
    /\ Len(inflight) = 1
    /\ inflight[1].carried = resp.form[1].carried
    /\ [session |-> session, cookie |-> cookie]
          = SubmitOn(resp.form[1].carried, resp.form[1].request)
    /\ inflight' = <<>>
    /\ resp'.route = "answer"

\* session and decoded store of two cookie states agree
SameState(a, b) ==
    a.session = b.session /\ get_storage(a.cookie) = get_storage(b.cookie)

\* C18: when two submits carrying the same session and store values have both been
\* answered, in either order, the session and the store of the client are those of
\* running the two submits one after the other.
C18_OverlapLosesNoUpdate ==
    [][SecondOfOverlappingPair =>
        LET carried == resp.form[1].carried
            first == resp.form[1].request
            second == inflight[1].request
            final == [session |-> session', cookie |-> cookie']
        IN  \/ SameState(final, SubmitOn(SubmitOn(carried, first), second))
            \/ SameState(final, SubmitOn(SubmitOn(carried, second), first))]_vars

\* what the code does instead: the response that arrives last replaces both
\* cookies, so the client is left with the outcome of that one submit alone
OverlapKeepsLastResponseOnly ==
    [][(SecondOfOverlappingPair /\ inflight[1].outcome.cookie # <<>>) =>
        SameState([session |-> session', cookie |-> cookie'],
                  SubmitOn(resp.form[1].carried, inflight[1].request))]_vars

(***************************************************************************)
(* The counters of a session (specification Spec).                          *)
(***************************************************************************)
\* questions of the session answered so far
Answered == session.total_in_session - Len(session.quiz_queue)

CounterInvariant ==
    /\ 0 <= Len(session.quiz_queue)
    /\ Len(session.quiz_queue) <= session.total_in_session
    /\ 0 <= session.correct_count
    /\ session.correct_count <= Answered
    /\ session.last_result # <<>> => session.last_result[1].current = Answered
    /\ resp.route = "show_result" => resp.score \in 0..100

\* C19: in every state after a start, 0 <= len(queue) <= total and
\* 0 <= correct_count <= total - len(queue), the pending result's position is
\* total - len(queue), the score of the summary is within 0..100, and total
\* changes only when a session is started or abandoned.
C19_CounterInvariant ==
    /\ [](session.active => CounterInvariant)
    /\ [][resp'.route \notin {"start_study", "home"}
            => session'.total_in_session = session.total_in_session]_vars

\* the first of two questions was answered correctly and its result is pending
C19_Witness ==
    /\ session.active
    /\ session.total_in_session = 2
    /\ Len(session.quiz_queue) = 1
    /\ session.correct_count = 1
    /\ session.last_result # <<>>
    /\ session.last_result[1].current = 1

\* the ids a missed list holds
IdSet(seq) == {seq[k] : k \in 1..Len(seq)}

\* C20: whatever id the path of a submit carries, the only id a recorded answer
\* adds to or removes from missed_ids is the id of the queue head that was graded.
C20_StoreUpdatedUnderGradedId ==
    [][Recorded_Answer_Step =>
        LET head == resp'.graded[1].card.id
            before == IdSet(MissedIds(cookie))
            after == IdSet(MissedIds(cookie'))
        IN  /\ (after \ before) \subseteq {head}
            /\ (before \ after) \subseteq {head}]_vars

\* what the code does instead: the only id a recorded answer adds or removes is
\* the id of the request path (it holds)
StoreUpdatedUnderPathId ==
    [][Recorded_Answer_Step =>
        LET path == resp'.graded[1].card_id
            before == IdSet(MissedIds(cookie))
            after == IdSet(MissedIds(cookie'))
        IN  /\ (after \ before) \subseteq {path}
            /\ (before \ after) \subseteq {path}]_vars

====
